---- MODULE Spec2Model ----
(***************************************************************************)
(* A model of src/arch/windows/process_info.c: the PID enumeration        *)
(* (ps__get_pids), the handle guard (ps__handle_from_pid_waccess ->        *)
(* ps__check_phandle -> ps__is_phandle_running), the remote reader          *)
(* (ps__get_process_data) and the snapshot scanner (ps__get_proc_info).    *)
(*                                                                         *)
(* The operating system is the environment: every answer of an OS call     *)
(* (OpenProcess, GetExitCodeProcess, EnumProcesses, malloc, ...) is an     *)
(* input drawn with \E at the step that makes the call.                    *)
(***************************************************************************)
EXTENDS Integers, Sequences, FiniteSets, TLC

VARIABLES
    PS__TESTING,   \* the run-time testing flag read by the ps__assert_* helpers
    nLive,         \* number of live processes of the (quiescent) system
    gp,            \* locals of the running ps__get_pids call
    prevPids,      \* the PID array the previous ps__get_pids call returned
    g,             \* the running guard call: its inputs, the OS answers, its result
    callerWide,    \* the build: TRUE when compiled with _WIN64
    statics,       \* the function-local statics caching resolved primitives
    pd,            \* locals and outputs of the running ps__get_process_data call
    initialBufferSize,  \* the static size hint of ps__get_proc_info
    ntdllRefs,     \* module references to ntdll.dll held through LoadLibrary
    pi,            \* locals and outputs of the running ps__get_proc_info call
    acc,           \* the running accessor call (ps__get_cmdline/_cwd/_environ)
    rs,            \* one region-size probe: its inputs and what it computed
    th,            \* two calls running concurrently: the locals of each
    world          \* what ntdll.dll exports, fixed for the process lifetime

vars == <<PS__TESTING, nLive, gp, prevPids, g, callerWide, statics, pd,
          initialBufferSize, ntdllRefs, pi, acc, rs, th, world>>

pidsVars == <<gp, prevPids>>
dataVars == <<callerWide, statics, pd>>
infoVars == <<initialBufferSize, ntdllRefs, pi>>
accVars == <<acc>>
regionVars == <<rs>>
raceVars == <<th, world>>

----------------------------------------------------------------------------
(* Bounds of the model *)

\* largest number of live processes the enumeration is run against
MaxProcs == 2049
\* largest number of live processes while the guard is exercised
MaxGuardProcs == 3

(* Program constants *)

NULL == 0
\* procArraySz += 1024
PidChunk == 1024
\* sizeof(DWORD)
SizeofDWORD == 4
\* the exit code GetExitCodeProcess reports for a running process
STILL_ACTIVE == 259

Min(a, b) == IF a < b THEN a ELSE b

----------------------------------------------------------------------------
(* The C heap: a block is "live" after malloc/calloc, "freed" after one    *)
(* free and "double" after a second one.  A pointer is the block's index;  *)
(* free(NULL) does nothing.                                                *)

malloc(heap) == Append(heap, "live")

free_nothing(heap, p) == heap
free(heap, p) ==
    IF p = NULL THEN heap
    ELSE [heap EXCEPT ![p] = IF @ = "live" THEN "freed" ELSE "double"]

----------------------------------------------------------------------------
(* The process list of the system: n live processes have the identifiers   *)
(* 0, 4, 8, ... (identifier 0 is the idle process).                        *)

livePids(n) == [i \in 1..n |-> 4 * (i - 1)]

\* EnumProcesses(buf, cb, &ret): fills as many identifiers as fit in cb bytes
EnumProcesses(n, cb) == SubSeq(livePids(n), 1, Min(n, cb \div SizeofDWORD))

----------------------------------------------------------------------------
(* ps__get_pids *)

\* the locals on entry
GetPidsEntry ==
    [status |-> "loop", procArray |-> NULL, procArraySz |-> 0,
     enumReturnSz |-> 0, data |-> <<>>, heap |-> <<>>, queries |-> 0,
     ret |-> NULL, numberOfReturnedPIDs |-> 0, err |-> "none"]

\* while (enumReturnSz == procArraySz * sizeof(DWORD))
EnumTruncatedAlways(enumReturnSz, procArraySz) == FALSE
EnumTruncated(enumReturnSz, procArraySz) ==
    enumReturnSz = procArraySz * SizeofDWORD

\* one pass of the do-while body and its loop test; outcome is what the
\* allocator and the OS answer in this pass: "ok", "nomem" or "enumfail"
GetPidsBody(st, n, outcome) ==
    LET sz    == st.procArraySz + PidChunk
        h1    == free(st.heap, st.procArray)
        bytes == sz * SizeofDWORD
    IN  IF outcome = "nomem"
        THEN [st EXCEPT !.status = "done", !.procArraySz = sz, !.heap = h1,
                        !.procArray = NULL, !.data = <<>>,
                        !.ret = NULL, !.err = "NoMemory"]
        ELSE
          LET h2 == malloc(h1)
              p  == Len(h2)
          IN  IF outcome = "enumfail"
              THEN [st EXCEPT !.status = "done", !.procArraySz = sz,
                              !.heap = free(h2, p), !.procArray = p,
                              !.data = <<>>, !.queries = @ + 1,
                              !.ret = NULL, !.err = "WindowsError"]
              ELSE
                LET filled == EnumProcesses(n, bytes)
                    ers    == Len(filled) * SizeofDWORD
                IN  IF EnumTruncated(ers, sz)
                    THEN [st EXCEPT !.procArraySz = sz, !.heap = h2,
                                    !.procArray = p, !.data = filled,
                                    !.enumReturnSz = ers, !.queries = @ + 1]
                    ELSE [st EXCEPT !.status = "done", !.procArraySz = sz,
                                    !.heap = h2, !.procArray = p,
                                    !.data = filled, !.enumReturnSz = ers,
                                    !.queries = @ + 1, !.ret = p,
                                    !.numberOfReturnedPIDs = ers \div SizeofDWORD]

\* a whole call, as the guard's helpers make it: the first pass meets
\* `outcome`, the later passes succeed
RECURSIVE GetPidsRun(_, _, _)
GetPidsRun(st, n, outcome) ==
    LET s2 == GetPidsBody(st, n, outcome)
    IN  IF s2.status = "done" THEN s2 ELSE GetPidsRun(s2, n, "ok")

ps__get_pids(n, outcome) == GetPidsRun(GetPidsEntry, n, outcome)

\* Return 1 if PID exists, 0 if not, -1 on error.
ps__pid_in_pids(pid, n, outcome) ==
    LET r == ps__get_pids(n, outcome)
    IN  IF r.ret = NULL THEN -1
        ELSE IF \E i \in 1..r.numberOfReturnedPIDs : r.data[i] = pid THEN 1
        ELSE 0

\* the number of ps__get_pids enumerations one assert helper makes: the call
\* of ps__pid_in_pids is inside `if (PS__TESTING)`
AssertEnumerations(testing) == IF testing THEN 1 ELSE 0

ps__assert_pid_exists_always(pid, n, outcome, testing) ==
    IF ps__pid_in_pids(pid, n, outcome) = 0 THEN 0 ELSE 1

ps__assert_pid_exists(pid, n, outcome, testing) ==
    IF testing /\ ps__pid_in_pids(pid, n, outcome) = 0 THEN 0 ELSE 1

ps__assert_pid_not_exists(pid, n, outcome, testing) ==
    IF testing /\ ps__pid_in_pids(pid, n, outcome) = 1 THEN 0 ELSE 1

----------------------------------------------------------------------------
(* The ps__get_pids call, pass by pass *)

GetPidsIdle == [GetPidsEntry EXCEPT !.status = "idle"]

PidsCall ==
    /\ gp.status \in {"idle", "done"}
    /\ prevPids' = IF gp.status = "done" /\ gp.ret # NULL
                   THEN [valid |-> TRUE,
                         pids |-> SubSeq(gp.data, 1, gp.numberOfReturnedPIDs)]
                   ELSE prevPids
    /\ gp' = GetPidsEntry
    /\ UNCHANGED <<PS__TESTING, nLive, g, dataVars, infoVars, accVars, regionVars, raceVars>>

PidsPass ==
    /\ gp.status = "loop"
    /\ \E outcome \in {"ok", "nomem", "enumfail"} :
           gp' = GetPidsBody(gp, nLive, outcome)
    /\ UNCHANGED <<PS__TESTING, nLive, prevPids, g, dataVars, infoVars,
                   accVars, regionVars, raceVars>>

----------------------------------------------------------------------------
(* The handle guard.  `os` holds what the OS answers during one call:      *)
(*   open     - OpenProcess: "ok", or the GetLastError() value of a failed *)
(*              open, "ERROR_INVALID_PARAMETER" or "ERROR_ACCESS_DENIED"   *)
(*   exitOk   - whether GetExitCodeProcess succeeds, exitCode - its result *)
(*   n        - the number of live processes, enum - what the enumeration  *)
(*              made by ps__pid_in_pids meets ("ok", "nomem", "enumfail")  *)
(*   testing  - PS__TESTING                                                *)
(* The handle OpenProcess returns is 1.  Each operator returns its C       *)
(* result with its effects: closes counts CloseHandle(hProcess), err is    *)
(* the error the call has set, branch names the branch of                  *)
(* ps__is_phandle_running that was taken and enums counts the PID          *)
(* enumerations (calls of ps__get_pids) it made.                           *)

OpenAnswers == {"ok", "ERROR_INVALID_PARAMETER", "ERROR_ACCESS_DENIED"}
ExitCodes == {0, 1, STILL_ACTIVE}
EnumOutcomes == {"ok", "nomem", "enumfail"}

ps__is_phandle_running_leak(hProcess, pid, os) ==
    IF hProcess = NULL
    THEN IF os.open = "ERROR_INVALID_PARAMETER"
         THEN IF ps__assert_pid_not_exists(pid, os.n, os.enum, os.testing) = 0
              THEN [ret |-> -2, closes |-> 0, err |-> "Assertion",
                    branch |-> "open: invalid parameter",
                    enums |-> AssertEnumerations(os.testing)]
              ELSE [ret |-> 0, closes |-> 0, err |-> "none",
                    branch |-> "open: invalid parameter",
                    enums |-> AssertEnumerations(os.testing)]
         ELSE [ret |-> -1, closes |-> 0, err |-> "none",
               branch |-> "open: other error", enums |-> 0]
    ELSE IF os.exitOk
    THEN IF os.exitCode = STILL_ACTIVE
         THEN IF ps__assert_pid_exists(pid, os.n, os.enum, os.testing) = 0
              THEN [ret |-> -2, closes |-> 1, err |-> "Assertion",
                    branch |-> "still active",
                    enums |-> AssertEnumerations(os.testing)]
              ELSE [ret |-> 1, closes |-> 0, err |-> "none",
                    branch |-> "still active",
                    enums |-> AssertEnumerations(os.testing)]
         ELSE IF ps__pid_in_pids(pid, os.n, os.enum) = 1
              THEN [ret |-> 1, closes |-> 0, err |-> "none",
                    branch |-> "exit code", enums |-> 1]
              ELSE [ret |-> 0, closes |-> 0, err |-> "none",
                    branch |-> "exit code", enums |-> 1]
    ELSE IF ps__assert_pid_not_exists(pid, os.n, os.enum, os.testing) = 0
         THEN [ret |-> -2, closes |-> 1, err |-> "Assertion",
               branch |-> "exit code query failed",
               enums |-> AssertEnumerations(os.testing)]
         ELSE [ret |-> -1, closes |-> 1, err |-> "none",
               branch |-> "exit code query failed",
               enums |-> AssertEnumerations(os.testing)]

ps__is_phandle_running(hProcess, pid, os) ==
    IF hProcess = NULL
    THEN IF os.open = "ERROR_INVALID_PARAMETER"
         THEN IF ps__assert_pid_not_exists(pid, os.n, os.enum, os.testing) = 0
              THEN [ret |-> -2, closes |-> 0, err |-> "Assertion",
                    branch |-> "open: invalid parameter",
                    enums |-> AssertEnumerations(os.testing)]
              ELSE [ret |-> 0, closes |-> 0, err |-> "none",
                    branch |-> "open: invalid parameter",
                    enums |-> AssertEnumerations(os.testing)]
         ELSE [ret |-> -1, closes |-> 0, err |-> "none",
               branch |-> "open: other error", enums |-> 0]
    ELSE IF os.exitOk
    THEN IF os.exitCode = STILL_ACTIVE
         THEN IF ps__assert_pid_exists(pid, os.n, os.enum, os.testing) = 0
              THEN [ret |-> -2, closes |-> 1, err |-> "Assertion",
                    branch |-> "still active",
                    enums |-> AssertEnumerations(os.testing)]
              ELSE [ret |-> 1, closes |-> 0, err |-> "none",
                    branch |-> "still active",
                    enums |-> AssertEnumerations(os.testing)]
         ELSE \* We can't be sure so we look into pids.
              IF ps__pid_in_pids(pid, os.n, os.enum) = 1
              THEN [ret |-> 1, closes |-> 0, err |-> "none",
                    branch |-> "exit code", enums |-> 1]
              ELSE [ret |-> 0, closes |-> 1, err |-> "none",
                    branch |-> "exit code", enums |-> 1]
    ELSE \* CloseHandle(hProcess), then the cross-check
         IF ps__assert_pid_not_exists(pid, os.n, os.enum, os.testing) = 0
         THEN [ret |-> -2, closes |-> 1, err |-> "Assertion",
               branch |-> "exit code query failed",
               enums |-> AssertEnumerations(os.testing)]
         ELSE [ret |-> -1, closes |-> 1, err |-> "none",
               branch |-> "exit code query failed",
               enums |-> AssertEnumerations(os.testing)]

ps__check_phandle(hProcess, pid, os) ==
    LET r == ps__is_phandle_running(hProcess, pid, os)
    IN  IF r.ret = 1
        THEN [handle |-> hProcess, running |-> r.ret, closes |-> r.closes,
              err |-> r.err]
        ELSE IF r.ret = 0
        THEN [handle |-> NULL, running |-> r.ret, closes |-> r.closes,
              err |-> "NoSuchProcess"]
        ELSE IF r.ret = -1
        THEN [handle |-> NULL, running |-> r.ret, closes |-> r.closes,
              err |-> "WindowsError"]
        ELSE [handle |-> NULL, running |-> r.ret, closes |-> r.closes,
              err |-> r.err]

\* OpenProcess(dwDesiredAccess, FALSE, pid)
OpenProcess(os) == IF os.open = "ok" THEN 1 ELSE NULL

\* running = 2 stands for "ps__is_phandle_running was not called";
\* openCalls counts the calls of OpenProcess, opened is the handle it gave
ps__handle_from_pid_waccess_nozero(pid, dwDesiredAccess, os) ==
    LET hProcess == OpenProcess(os)
        c == ps__check_phandle(hProcess, pid, os)
    IN  [handle |-> c.handle, running |-> c.running, closes |-> c.closes,
         err |-> c.err, openCalls |-> 1, opened |-> hProcess]

ps__handle_from_pid_waccess(pid, dwDesiredAccess, os) ==
    IF pid = 0
    THEN \* otherwise we'd get NoSuchProcess
         [handle |-> NULL, running |-> 2, closes |-> 0,
          err |-> "AccessDenied", openCalls |-> 0, opened |-> NULL]
    ELSE LET hProcess == OpenProcess(os)
             c == ps__check_phandle(hProcess, pid, os)
         IN  [handle |-> c.handle, running |-> c.running, closes |-> c.closes,
              err |-> c.err, openCalls |-> 1, opened |-> hProcess]

\* PROCESS_QUERY_INFORMATION | PROCESS_VM_READ
QueryRead == "PROCESS_QUERY_INFORMATION|PROCESS_VM_READ"
ps__handle_from_pid(pid, os) == ps__handle_from_pid_waccess(pid, QueryRead, os)

----------------------------------------------------------------------------
(* A guard call: the caller picks the PID and the access mask, the OS its  *)
(* answers.                                                                *)

GuardPids == {4 * i : i \in 0..MaxGuardProcs}
AccessMasks == {QueryRead, "PROCESS_QUERY_LIMITED_INFORMATION", "PROCESS_ALL_ACCESS"}

OsAnswers(n, testing) ==
    [open : OpenAnswers, exitOk : BOOLEAN, exitCode : ExitCodes,
     n : {n}, enum : EnumOutcomes, testing : {testing}]

NoOs == [open |-> "ok", exitOk |-> TRUE, exitCode |-> 0, n |-> 0,
         enum |-> "ok", testing |-> FALSE]

GuardIdle ==
    [pc |-> "idle", pid |-> 0, access |-> QueryRead, os |-> NoOs,
     r |-> [handle |-> NULL, running |-> 2, closes |-> 0, err |-> "none",
            openCalls |-> 0, opened |-> NULL]]

GuardCall ==
    /\ g.pc \in {"idle", "done"}
    /\ \E pid \in GuardPids, access \in AccessMasks :
           g' = [GuardIdle EXCEPT !.pc = "called", !.pid = pid,
                                  !.access = access]
    /\ UNCHANGED <<PS__TESTING, nLive, pidsVars, dataVars, infoVars, accVars, regionVars, raceVars>>

GuardRun ==
    /\ g.pc = "called"
    /\ \E os \in OsAnswers(nLive, PS__TESTING) :
           g' = [g EXCEPT !.pc = "done", !.os = os,
                          !.r = ps__handle_from_pid_waccess(g.pid, g.access, os)]
    /\ UNCHANGED <<PS__TESTING, nLive, pidsVars, dataVars, infoVars, accVars, regionVars, raceVars>>

----------------------------------------------------------------------------
(* ps__get_process_data *)

\* largest Length (in bytes) the target's UNICODE_STRING descriptors carry
MaxLen == 2
\* largest RegionSize (in bytes) a region query reports
MaxRegion == 3
\* 2^32 and 2^64 do not fit TLC's integers: the 32-bit and 64-bit words of
\* the program are scaled to 8 and 16 bits
DWORD32Mod == 256
ULONG64Mod == 65536

Kinds == {"KIND_CMDLINE", "KIND_CWD", "KIND_ENVIRON"}
Bytes == {0, 1}
DataPids == {0, 4, 8}

\* what GetProcAddress answers: NULL, or the address (1) of the primitive
ProcAddresses == {NULL, 1}

StaticsInit ==
    [NtQueryInformationProcess |-> NULL,
     NtWow64QueryInformationProcess64 |-> NULL,
     NtWow64ReadVirtualMemory64 |-> NULL,
     NtWow64QueryVirtualMemory64 |-> NULL]

\* if (fn == NULL) fn = GetProcAddress(...)
LazyAlways(cur, answer) == answer
Lazy(cur, answer) == IF cur = NULL THEN answer ELSE cur

\* the primitives GetProcAddress was asked for during the call: it is asked
\* when the static pointer is NULL
Looked(lookups, cur, name) ==
    IF cur = NULL THEN lookups \cup {name} ELSE lookups

\* the branch the function takes: ppeb32 != NULL in the 64-bit build,
\* weAreWow64 && !theyAreWow64 in the 32-bit build, else the native block
SelectModeSwapped(wide, ppeb32, weAreWow64, theyAreWow64) ==
    IF wide
    THEN IF ppeb32 = NULL THEN "TargetNarrowerThanCaller" ELSE "Native"
    ELSE IF theyAreWow64 /\ ~weAreWow64 THEN "TargetWiderThanCaller"
         ELSE "Native"
SelectMode(wide, ppeb32, weAreWow64, theyAreWow64) ==
    IF wide
    THEN IF ppeb32 # NULL THEN "TargetNarrowerThanCaller" ELSE "Native"
    ELSE IF weAreWow64 /\ ~theyAreWow64 THEN "TargetWiderThanCaller"
         ELSE "Native"

\* the process parameters block of the target, as read into the caller
ParamBlocks ==
    [CommandLine : [Buffer : {16}, Length : 0..MaxLen],
     CurrentDirectoryPath : [Buffer : {24}, Length : 0..MaxLen],
     env : {8}]

\* switch (kind): the start address and, for the two strings, the length
SelectField(kind, params, size) ==
    IF kind = "KIND_CMDLINE"
    THEN [src |-> params.CommandLine.Buffer,
          size |-> params.CommandLine.Length]
    ELSE IF kind = "KIND_CWD"
    THEN [src |-> params.CurrentDirectoryPath.Buffer,
          size |-> params.CurrentDirectoryPath.Length]
    ELSE [src |-> params.env, size |-> size]

\* the region a query reports for an address: it contains the address
RegionsOf(src) ==
    {info \in [BaseAddress : (src - MaxRegion + 1)..src, RegionSize : 1..MaxRegion] :
         src < info.BaseAddress + info.RegionSize}

\* *psize = info.RegionSize - ((char*)src - (char*)info.BaseAddress)
ps__get_process_region_size(src, info) ==
    info.RegionSize - (src - info.BaseAddress)

\* *psize = info64.RegionSize - ((DWORD32)src64 - (DWORD32)info64.BaseAddress)
ps__get_process_region_size64(src64, info64) ==
    (info64.RegionSize
       - (((src64 % DWORD32Mod) - (info64.BaseAddress % DWORD32Mod)) % DWORD32Mod))
    % ULONG64Mod

\* (SIZE_T)size64 in the 32-bit build
SizeT32(size64) == size64 % DWORD32Mod

\* calloc(size + 2, 1)
AllocSizeNoTerminator(size) == size
AllocSize(size) == size + 2

Zeros(n) == [i \in 1..n |-> 0]

\* nothing read yet
NoParams ==
    [CommandLine |-> [Buffer |-> NULL, Length |-> 0],
     CurrentDirectoryPath |-> [Buffer |-> NULL, Length |-> 0],
     env |-> NULL]
NoInfo == [BaseAddress |-> NULL, RegionSize |-> 0]

\* the locals on entry; the outputs are the caller's: data = NULL and an
\* uninitialised size (-1).  ret = 1 stands for "has not returned".
DataEntry(pid, kind) ==
    [pc |-> "guard", pid |-> pid, kind |-> kind, hProcess |-> NULL,
     opened |-> NULL, guardCloses |-> 0, closes |-> 0,
     src |-> NULL, src64 |-> NULL, size |-> 0,
     buffer |-> NULL, heap |-> <<>>, mem |-> <<>>, copied |-> <<>>,
     reads |-> 0, ppeb32 |-> NULL,
     weAreWow64 |-> FALSE, theyAreWow64 |-> FALSE, mode |-> "none",
     ret |-> 1, err |-> "none", failedAt |-> "none", lookups |-> {},
     params |-> NoParams, info |-> NoInfo,
     pdata |-> NULL, psize |-> -1]

DataIdle == [DataEntry(0, "KIND_CMDLINE") EXCEPT !.pc = "idle"]

\* error: CloseHandle(hProcess) if set, free(buffer) if set, return -1
DataErrorLeakBuffer(st, step, err) ==
    [st EXCEPT !.pc = "done", !.ret = -1, !.err = err, !.failedAt = step,
               !.closes = IF st.hProcess # NULL THEN @ + 1 ELSE @]
DataErrorLeakHandle(st, step, err) ==
    [st EXCEPT !.pc = "done", !.ret = -1, !.err = err, !.failedAt = step,
               !.heap = IF st.buffer # NULL THEN free(@, st.buffer) ELSE @]
DataError(st, step, err) ==
    [st EXCEPT !.pc = "done", !.ret = -1, !.err = err, !.failedAt = step,
               !.closes = IF st.hProcess # NULL THEN @ + 1 ELSE @,
               !.heap = IF st.buffer # NULL THEN free(@, st.buffer) ELSE @]

\* CloseHandle(hProcess); *pdata = buffer; *psize = size; return 0
DataSuccess(st) ==
    [st EXCEPT !.pc = "done", !.ret = 0, !.closes = @ + 1,
               !.pdata = st.buffer, !.psize = st.size]

DataCall ==
    /\ pd.pc \in {"idle", "done"}
    /\ \E pid \in DataPids, kind \in Kinds : pd' = DataEntry(pid, kind)
    /\ UNCHANGED <<PS__TESTING, nLive, pidsVars, g, callerWide, statics,
                   infoVars, accVars, regionVars, raceVars>>

\* hProcess = ps__handle_from_pid(pid); if (hProcess == NULL) return -1
DataGuard ==
    /\ pd.pc = "guard"
    /\ \E os \in OsAnswers(nLive, PS__TESTING) :
         \E r \in {ps__handle_from_pid(pd.pid, os)} :
             pd' = IF r.handle = NULL
                   THEN [pd EXCEPT !.pc = "done", !.ret = -1, !.err = r.err,
                                   !.failedAt = "guard", !.opened = r.opened,
                                   !.guardCloses = r.closes]
                   ELSE [pd EXCEPT !.pc = "resolve", !.hProcess = r.handle,
                                   !.opened = r.opened,
                                   !.guardCloses = r.closes]
    /\ UNCHANGED <<PS__TESTING, nLive, pidsVars, g, callerWide, statics,
                   infoVars, accVars, regionVars, raceVars>>

\* if (NtQueryInformationProcess == NULL) NtQueryInformationProcess = GetProcAddress(...)
DataResolve ==
    /\ pd.pc = "resolve"
    /\ \E answer \in ProcAddresses :
         statics' = [statics EXCEPT !.NtQueryInformationProcess = Lazy(@, answer)]
    /\ pd' = [pd EXCEPT !.pc = "mode",
                         !.lookups = Looked(@, statics.NtQueryInformationProcess,
                                            "NtQueryInformationProcess")]
    /\ UNCHANGED <<PS__TESTING, nLive, pidsVars, g, callerWide, infoVars,
                   accVars, regionVars, raceVars>>

\* 64-bit build: NtQueryInformationProcess(ProcessWow64Information), called
\* through the pointer whatever it holds; 32-bit build: IsWow64Process twice
DataMode ==
    /\ pd.pc = "mode"
    /\ IF callerWide
       THEN IF statics.NtQueryInformationProcess = NULL
            THEN pd' = [pd EXCEPT !.pc = "crashed", !.failedAt = "nullcall"]
            ELSE \E ok \in BOOLEAN, ppeb32 \in {NULL, 1} :
                   pd' = IF ~ok
                         THEN DataError(pd, "modequery", "WindowsError")
                         ELSE LET m == SelectMode(TRUE, ppeb32, FALSE, FALSE)
                              IN  [pd EXCEPT !.ppeb32 = ppeb32, !.mode = m,
                                     !.pc = IF m = "Native" THEN "query" ELSE "peb"]
       ELSE \E ok \in BOOLEAN, we \in BOOLEAN, they \in BOOLEAN :
              pd' = IF ~ok
                    THEN DataError(pd, "modequery", "WindowsError")
                    ELSE [pd EXCEPT !.weAreWow64 = we, !.theyAreWow64 = they,
                                    !.mode = SelectMode(FALSE, NULL, we, they),
                                    !.pc = "query"]
    /\ UNCHANGED <<PS__TESTING, nLive, pidsVars, g, callerWide, statics,
                   infoVars, accVars, regionVars, raceVars>>

\* the basic-information query that yields the PEB address
DataQuery ==
    /\ pd.pc = "query"
    /\ IF pd.mode = "TargetWiderThanCaller"
       THEN \E answer \in ProcAddresses, ok \in BOOLEAN :
              LET fn == Lazy(statics.NtWow64QueryInformationProcess64, answer)
                  st == [pd EXCEPT !.lookups =
                            Looked(@, statics.NtWow64QueryInformationProcess64,
                                   "NtWow64QueryInformationProcess64")]
              IN  /\ statics' = [statics EXCEPT !.NtWow64QueryInformationProcess64 = fn]
                  /\ pd' = IF fn = NULL
                           THEN DataError(st, "resolve64", "NtWow64QueryInformationProcess64 missing")
                           ELSE IF ~ok
                           THEN DataError(st, "query", "WindowsError")
                           ELSE [st EXCEPT !.pc = "peb"]
       ELSE /\ UNCHANGED statics
            /\ IF statics.NtQueryInformationProcess = NULL
               THEN pd' = [pd EXCEPT !.pc = "crashed", !.failedAt = "nullcall"]
               ELSE \E ok \in BOOLEAN :
                      pd' = IF ~ok
                            THEN DataError(pd, "query", "WindowsError")
                            ELSE [pd EXCEPT !.pc = "peb"]
    /\ UNCHANGED <<PS__TESTING, nLive, pidsVars, g, callerWide, infoVars,
                   accVars, regionVars, raceVars>>

\* read the PEB
DataPeb ==
    /\ pd.pc = "peb"
    /\ IF pd.mode = "TargetWiderThanCaller"
       THEN \E answer \in ProcAddresses, ok \in BOOLEAN :
              LET fn == Lazy(statics.NtWow64ReadVirtualMemory64, answer)
                  st == [pd EXCEPT !.lookups =
                            Looked(@, statics.NtWow64ReadVirtualMemory64,
                                   "NtWow64ReadVirtualMemory64")]
              IN  /\ statics' = [statics EXCEPT !.NtWow64ReadVirtualMemory64 = fn]
                  /\ pd' = IF fn = NULL
                           THEN DataError(st, "resolve64", "NtWow64ReadVirtualMemory64 missing")
                           ELSE IF ~ok
                           THEN DataError(st, "peb", "WindowsError")
                           ELSE [st EXCEPT !.pc = "params"]
       ELSE /\ UNCHANGED statics
            /\ \E ok \in BOOLEAN :
                 pd' = IF ~ok
                       THEN DataError(pd, "peb", "WindowsError")
                       ELSE [pd EXCEPT !.pc = "params"]
    /\ UNCHANGED <<PS__TESTING, nLive, pidsVars, g, callerWide, infoVars,
                   accVars, regionVars, raceVars>>

\* read the process parameters, then switch (kind)
DataParams ==
    /\ pd.pc = "params"
    /\ \E ok \in BOOLEAN, params \in ParamBlocks :
         pd' = IF ~ok
               THEN DataError(pd, "params", "WindowsError")
               ELSE LET d == SelectField(pd.kind, params, pd.size)
                    IN  [pd EXCEPT
                           !.src = IF pd.mode = "TargetWiderThanCaller" THEN @ ELSE d.src,
                           !.src64 = IF pd.mode = "TargetWiderThanCaller" THEN d.src ELSE @,
                           !.size = d.size, !.params = params,
                           !.pc = IF pd.kind = "KIND_ENVIRON" THEN "probe" ELSE "alloc"]
    /\ UNCHANGED <<PS__TESTING, nLive, pidsVars, g, callerWide, statics,
                   infoVars, accVars, regionVars, raceVars>>

\* if (kind == KIND_ENVIRON): probe the size of the region holding the block
DataProbe ==
    /\ pd.pc = "probe"
    /\ IF pd.mode = "TargetWiderThanCaller"
       THEN \E answer \in ProcAddresses, ok \in BOOLEAN, info64 \in RegionsOf(pd.src64) :
              LET fn == Lazy(statics.NtWow64QueryVirtualMemory64, answer)
                  st == [pd EXCEPT !.lookups =
                            Looked(@, statics.NtWow64QueryVirtualMemory64,
                                   "NtWow64QueryVirtualMemory64")]
              IN  /\ statics' = [statics EXCEPT !.NtWow64QueryVirtualMemory64 = fn]
                  /\ pd' = IF fn = NULL
                           THEN DataError(st, "resolve64", "NtWow64QueryVirtualMemory64 missing")
                           ELSE IF ~ok
                           THEN DataError(st, "probe", "WindowsError")
                           ELSE [st EXCEPT !.pc = "alloc", !.info = info64,
                                   !.size = SizeT32(ps__get_process_region_size64(pd.src64, info64))]
       ELSE /\ UNCHANGED statics
            /\ \E ok \in BOOLEAN, info \in RegionsOf(pd.src) :
                 pd' = IF ~ok
                       THEN DataError(pd, "probe", "WindowsError")
                       ELSE [pd EXCEPT !.pc = "alloc", !.info = info,
                               !.size = ps__get_process_region_size(pd.src, info)]
    /\ UNCHANGED <<PS__TESTING, nLive, pidsVars, g, callerWide, infoVars,
                   accVars, regionVars, raceVars>>

\* buffer = calloc(size + 2, 1)
DataAlloc ==
    /\ pd.pc = "alloc"
    /\ \E ok \in BOOLEAN :
         pd' = IF ~ok
               THEN DataError(pd, "alloc", "NoMemory")
               ELSE [pd EXCEPT !.pc = "read", !.heap = malloc(@),
                               !.buffer = Len(pd.heap) + 1,
                               !.mem = Zeros(AllocSize(pd.size))]
    /\ UNCHANGED <<PS__TESTING, nLive, pidsVars, g, callerWide, statics,
                   infoVars, accVars, regionVars, raceVars>>

\* the remote read of size bytes into the buffer, then the success return
DataRead ==
    /\ pd.pc = "read"
    /\ \E ok \in BOOLEAN, remote \in [1..pd.size -> Bytes] :
         pd' = IF ~ok
               THEN DataError(pd, "read", "WindowsError")
               ELSE DataSuccess(
                      [pd EXCEPT !.reads = @ + 1, !.copied = remote,
                          !.mem = [i \in 1..Len(pd.mem) |->
                                     IF i <= pd.size THEN remote[i] ELSE pd.mem[i]]])
    /\ UNCHANGED <<PS__TESTING, nLive, pidsVars, g, callerWide, statics,
                   infoVars, accVars, regionVars, raceVars>>

NextData ==
    \/ DataCall \/ DataGuard \/ DataResolve \/ DataMode \/ DataQuery
    \/ DataPeb \/ DataParams \/ DataProbe \/ DataAlloc \/ DataRead

----------------------------------------------------------------------------
(* ps__get_proc_info *)

\* most records in a snapshot chain
MaxChain == 3
\* largest NextEntryOffset of a record (record sizes are scaled down)
MaxRecLen == 2
\* distance between the addresses of two heap blocks: more than a snapshot
BlockSpan == 16
\* most module references the model lets accumulate
MaxRefs == 2

\* static ULONG initialBufferSize = 0x4000
InitialHint == 16384
\* if (bufferSize <= 0x20000)
HintCeiling == 131072

SnapPids == {4, 8}
SnapSizes == {InitialHint \div 2, InitialHint, HintCeiling, HintCeiling + 1}

\* the chains the OS may write: every record but the last carries the
\* offset to the next one, the last carries 0
Chains ==
    UNION { {c \in [1..n -> [UniqueProcessId : SnapPids,
                             NextEntryOffset : 0..MaxRecLen]] :
                 \A i \in 1..n : (c[i].NextEntryOffset = 0) <=> (i = n)} :
            n \in 1..MaxChain }

\* offset of the i-th record of a chain from the start of the buffer
RECURSIVE ChainOffset(_, _)
ChainOffset(c, i) ==
    IF i = 1 THEN 0 ELSE ChainOffset(c, i - 1) + c[i - 1].NextEntryOffset

\* the buffer the OS fills: the records at their offsets
ChainSnap(c) ==
    [o \in {ChainOffset(c, i) : i \in 1..Len(c)} |->
        c[CHOOSE i \in 1..Len(c) : ChainOffset(c, i) = o]]

\* what NtQuerySystemInformation answers for a buffer of bufferSize bytes:
\* the snapshot needs `need` bytes; a buffer too small gets one of the two
\* resize statuses, a query may also fail for another reason
QueryAnswers(bufferSize) ==
    { a \in [status : {"STATUS_SUCCESS", "STATUS_INFO_LENGTH_MISMATCH",
                       "STATUS_BUFFER_TOO_SMALL", "STATUS_ACCESS_DENIED"},
             need : SnapSizes] :
        /\ a.status = "STATUS_SUCCESS" => a.need <= bufferSize
        /\ a.status \in {"STATUS_INFO_LENGTH_MISMATCH", "STATUS_BUFFER_TOO_SMALL"}
               => a.need > bufferSize }

\* the locals on entry; ret = -1 stands for "has not returned", firstSize
\* keeps the value of the hint the call read into bufferSize
InfoEntry(pid) ==
    [pc |-> "load", pid |-> pid, hNtDll |-> NULL,
     NtQuerySystemInformation |-> NULL,
     buffer |-> NULL, bufferSize |-> 0, heap |-> <<>>, status |-> "none",
     snap |-> <<>>, process |-> NULL, visited |-> <<>>,
     ret |-> -1, err |-> "none", retProcess |-> NULL, retBuffer |-> NULL,
     loads |-> 0, frees |-> 0, firstSize |-> 0]

InfoIdle == [InfoEntry(0) EXCEPT !.pc = "idle"]

\* (PSYSTEM_PROCESS_INFORMATION)(Processes): the address of the block
PS__FIRST_PROCESS(Processes) == Processes * BlockSpan

\* the record a pointer into the snapshot buffer points at
Record(st, Process) == st.snap[Process - st.buffer * BlockSpan]

\* NextEntryOffset ? (PCHAR)(Process) + NextEntryOffset : NULL
PS__NEXT_PROCESS_stop(st, Process) == NULL
PS__NEXT_PROCESS(st, Process) ==
    IF Record(st, Process).NextEntryOffset # 0
    THEN Process + Record(st, Process).NextEntryOffset
    ELSE NULL

\* error: FreeLibrary(hNtDll); if (buffer != NULL) free(buffer); return 0
InfoError(st, err) ==
    [st EXCEPT !.pc = "done", !.ret = 0, !.err = err,
               !.frees = IF st.hNtDll # NULL THEN @ + 1 ELSE @,
               !.heap = IF st.buffer # NULL THEN free(@, st.buffer) ELSE @]

\* free(buffer); buffer = malloc(bufferSize) in the resize branch
ResizeNoFree(st, size, ok) ==
    [st EXCEPT !.bufferSize = size,
               !.heap = IF ok THEN malloc(st.heap) ELSE st.heap,
               !.buffer = IF ok THEN Len(st.heap) + 1 ELSE NULL]
Resize(st, size, ok) ==
    [st EXCEPT !.bufferSize = size,
               !.heap = IF ok THEN malloc(free(st.heap, st.buffer))
                        ELSE free(st.heap, st.buffer),
               !.buffer = IF ok THEN Len(st.heap) + 1 ELSE NULL]

\* if (bufferSize <= 0x20000) initialBufferSize = bufferSize;
HintAfterNoCeiling(hint, bufferSize) == bufferSize
HintAfter(hint, bufferSize) ==
    IF bufferSize <= HintCeiling THEN bufferSize ELSE hint

\* the module references after the step that led to state st
Refs(old, new) == ntdllRefs + (new.loads - old.loads) - (new.frees - old.frees)

InfoCall ==
    /\ pi.pc \in {"idle", "done"}
    /\ ntdllRefs < MaxRefs
    /\ \E pid \in SnapPids : pi' = InfoEntry(pid)
    /\ UNCHANGED <<PS__TESTING, nLive, pidsVars, g, dataVars,
                   initialBufferSize, ntdllRefs, accVars, regionVars, raceVars>>

\* hNtDll = LoadLibrary("ntdll.dll"); NtQuerySystemInformation =
\* GetProcAddress(hNtDll, ...); bufferSize = initialBufferSize
InfoLoad ==
    /\ pi.pc = "load"
    /\ \E lib \in {NULL, 1}, answer \in ProcAddresses :
         pi' = [pi EXCEPT !.pc = "alloc", !.hNtDll = lib,
                   !.loads = IF lib # NULL THEN @ + 1 ELSE @,
                   !.NtQuerySystemInformation = IF lib = NULL THEN NULL ELSE answer,
                   !.bufferSize = initialBufferSize,
                   !.firstSize = initialBufferSize]
    /\ ntdllRefs' = Refs(pi, pi')
    /\ UNCHANGED <<PS__TESTING, nLive, pidsVars, g, dataVars,
                   initialBufferSize, accVars, regionVars, raceVars>>

\* buffer = malloc(bufferSize)
InfoAlloc ==
    /\ pi.pc = "alloc"
    /\ \E ok \in BOOLEAN :
         pi' = IF ok
               THEN [pi EXCEPT !.pc = "query", !.heap = malloc(@),
                               !.buffer = Len(pi.heap) + 1]
               ELSE InfoError(pi, "NoMemory")
    /\ ntdllRefs' = Refs(pi, pi')
    /\ UNCHANGED <<PS__TESTING, nLive, pidsVars, g, dataVars,
                   initialBufferSize, accVars, regionVars, raceVars>>

\* one pass of the while (TRUE) loop, then the status test, the update of
\* the hint and the start of the walk
InfoQuery ==
    /\ pi.pc = "query"
    /\ IF pi.NtQuerySystemInformation = NULL
       THEN /\ pi' = [pi EXCEPT !.pc = "crashed"]
            /\ UNCHANGED initialBufferSize
       ELSE \E a \in QueryAnswers(pi.bufferSize) :
              IF a.status \in {"STATUS_BUFFER_TOO_SMALL", "STATUS_INFO_LENGTH_MISMATCH"}
              THEN /\ \E ok \in BOOLEAN :
                        pi' = LET r == Resize([pi EXCEPT !.status = a.status], a.need, ok)
                              IN  IF r.buffer = NULL THEN InfoError(r, "NoMemory") ELSE r
                   /\ UNCHANGED initialBufferSize
              ELSE IF a.status # "STATUS_SUCCESS"
              THEN /\ pi' = InfoError([pi EXCEPT !.status = a.status,
                                                 !.bufferSize = a.need],
                                      "NtQuerySystemInformation() syscall failed")
                   /\ UNCHANGED initialBufferSize
              ELSE /\ \E c \in Chains :
                        pi' = [pi EXCEPT !.pc = "walk", !.status = a.status,
                                         !.bufferSize = a.need,
                                         !.snap = ChainSnap(c),
                                         !.process = PS__FIRST_PROCESS(pi.buffer)]
                   /\ initialBufferSize' = HintAfter(initialBufferSize, a.need)
    /\ ntdllRefs' = Refs(pi, pi')
    /\ UNCHANGED <<PS__TESTING, nLive, pidsVars, g, dataVars, accVars, regionVars, raceVars>>

\* one pass of the do-while over the chain
InfoWalk ==
    /\ pi.pc = "walk"
    /\ LET seen == [pi EXCEPT !.visited = Append(@, pi.process)]
       IN  pi' = IF Record(pi, pi.process).UniqueProcessId = pi.pid
                 THEN [seen EXCEPT !.pc = "done", !.ret = 1,
                                   !.retProcess = pi.process,
                                   !.retBuffer = pi.buffer]
                 ELSE IF PS__NEXT_PROCESS(pi, pi.process) # NULL
                 THEN [seen EXCEPT !.process = PS__NEXT_PROCESS(pi, pi.process)]
                 ELSE InfoError([seen EXCEPT !.process = NULL], "NoSuchProcess")
    /\ ntdllRefs' = Refs(pi, pi')
    /\ UNCHANGED <<PS__TESTING, nLive, pidsVars, g, dataVars,
                   initialBufferSize, accVars, regionVars, raceVars>>

NextInfo == InfoCall \/ InfoLoad \/ InfoAlloc \/ InfoQuery \/ InfoWalk

----------------------------------------------------------------------------
(* The accessors ps__get_cmdline, ps__get_cwd and ps__get_environ.  The    *)
(* buffer a successful ps__get_process_data returns holds AllocSize(size)  *)
(* bytes, that is Cells(size) characters (WCHAR): the size bytes copied    *)
(* from the target followed by the zero character calloc left.  Character  *)
(* data[i] of the code is data[i + 1] here.                                *)

\* largest number of characters the target's data holds
MaxChars == 3
\* sizeof(WCHAR)
SizeofWCHAR == 2
\* L'\\'
BACKSLASH == 92
\* the characters of the target's data: the terminator, a letter, a
\* separator
WChars == {0, 65, BACKSLASH}

\* the byte counts ps__get_process_data reports in *psize
AccSizes == {SizeofWCHAR * i : i \in 0..MaxChars}
Cells(size) == AllocSize(size) \div SizeofWCHAR
Buffers(size) ==
    {b \in [1..Cells(size) -> WChars] : b[Cells(size)] = 0}

\* wcslen(data): the number of characters before the first zero character
wcslen(data) ==
    (CHOOSE i \in 1..Len(data) :
        data[i] = 0 /\ \A j \in 1..(i - 1) : data[j] # 0) - 1

\* ps__get_cwd, "Usually has a trailing \".  When wcslen is 0, data[size - 1]
\* is the character in front of the buffer, `before`: it is read, and
\* overwritten when it is a backslash, outside the buffer.
Trim(data, before) ==
    LET size == wcslen(data)
    IN  IF size = 0
        THEN [data |-> data, oobRead |-> TRUE,
              oobWrite |-> (before = BACKSLASH)]
        ELSE [data |-> IF data[size] = BACKSLASH
                       THEN [data EXCEPT ![size] = 0]
                       ELSE data,
              oobRead |-> FALSE, oobWrite |-> FALSE]

\* ps__get_environ: the loop `while (ptr < end)`, ptr and end counted in
\* characters from data; mem is the buffer followed by the memory behind it.
\* Returns ptr at the exit of the loop.
RECURSIVE EnvScan(_, _, _, _)
EnvScan(mem, ptr, end, numzero) ==
    IF ~(ptr < end) THEN ptr
    ELSE IF mem[ptr + 1] # 0 THEN EnvScan(mem, ptr + 1, end, 0)
    ELSE IF numzero + 1 = 2 THEN ptr
    ELSE EnvScan(mem, ptr + 1, end, numzero + 1)

\* end = data + size: size is a byte count, data a WCHAR pointer
EnvScanEnd(size) == size

\* the memory behind a buffer of `size` bytes, as far as the scan can reach
Behind(size) ==
    IF EnvScanEnd(size) > Cells(size)
    THEN [1..(EnvScanEnd(size) - Cells(size)) -> WChars]
    ELSE {<<>>}

AccIdle ==
    [pc |-> "idle", fn |-> "KIND_CMDLINE", ret |-> 0, size |-> 0,
     input |-> <<>>, data |-> <<>>, ptr |-> NULL, heap |-> <<>>,
     registered |-> FALSE, protects |-> 0, finalized |-> FALSE,
     examined |-> -1, scanned |-> 0, oobRead |-> FALSE, oobWrite |-> FALSE,
     result |-> "none"]

\* .Call("ps__get_cmdline" | "ps__get_cwd" | "ps__get_environ", pid)
AccCall ==
    /\ acc.pc \in {"idle", "done"}
    /\ acc.registered => acc.finalized
    /\ \E fn \in Kinds : acc' = [AccIdle EXCEPT !.pc = "called", !.fn = fn]
    /\ UNCHANGED <<PS__TESTING, nLive, pidsVars, g, dataVars, infoVars, regionVars, raceVars>>

\* if (ps__get_process_data(pid, KIND, &data, &size) != 0) return R_NilValue;
AccData ==
    /\ acc.pc = "called"
    /\ \/ acc' = [acc EXCEPT !.pc = "done", !.ret = -1, !.result = "nil"]
       \/ \E size \in AccSizes : \E b \in Buffers(size) :
              acc' = [acc EXCEPT !.pc = "got", !.ret = 0, !.size = size,
                                 !.input = b, !.data = b,
                                 !.heap = malloc(acc.heap),
                                 !.ptr = Len(acc.heap) + 1]
    /\ UNCHANGED <<PS__TESTING, nLive, pidsVars, g, dataVars, infoVars, regionVars, raceVars>>

\* PROTECT_PTR(data): an external pointer to data is put on the protect
\* stack, with a finalizer that releases data with free()
PROTECT_PTR(st) == [st EXCEPT !.registered = TRUE, !.protects = 1]

AccProtect ==
    /\ acc.pc = "got"
    /\ acc' = [PROTECT_PTR(acc) EXCEPT !.pc = "protected"]
    /\ UNCHANGED <<PS__TESTING, nLive, pidsVars, g, dataVars, infoVars, regionVars, raceVars>>

\* PROTECT(ret = ...); UNPROTECT(2); return ret;
AccReturnValue(st) ==
    [st EXCEPT !.pc = "done", !.protects = 0, !.result = "value"]

\* if (szArglist == NULL) { ...; free(data); return R_NilValue; }
\* The protect stack is left to the caller of the function to unwind.
AccArgvFailed(st) ==
    [st EXCEPT !.pc = "done", !.heap = free(st.heap, st.ptr),
               !.protects = 0, !.result = "nil"]

AccCmdline ==
    /\ acc.pc = "protected" /\ acc.fn = "KIND_CMDLINE"
    /\ \E parsed \in BOOLEAN :
           acc' = IF parsed THEN AccReturnValue(acc) ELSE AccArgvFailed(acc)
    /\ UNCHANGED <<PS__TESTING, nLive, pidsVars, g, dataVars, infoVars, regionVars, raceVars>>

AccCwd ==
    /\ acc.pc = "protected" /\ acc.fn = "KIND_CWD"
    /\ \E before \in WChars : \E t \in {Trim(acc.data, before)} :
           acc' = [AccReturnValue(acc) EXCEPT !.data = t.data,
                                              !.oobRead = t.oobRead,
                                              !.oobWrite = t.oobWrite]
    /\ UNCHANGED <<PS__TESTING, nLive, pidsVars, g, dataVars, infoVars, regionVars, raceVars>>

AccEnviron ==
    /\ acc.pc = "protected" /\ acc.fn = "KIND_ENVIRON"
    /\ \E behind \in Behind(acc.size) :
       \E end \in {EnvScanEnd(acc.size)} :
       \E ptr \in {EnvScan(acc.data \o behind, 0, end, 0)} :
           acc' = [AccReturnValue(acc) EXCEPT
                       !.scanned = ptr,
                       !.examined = IF ptr < end THEN ptr ELSE end - 1,
                       !.oobRead = (ptr < end /\ ptr >= Cells(acc.size))
                                   \/ (~(ptr < end) /\ end > Cells(acc.size))]
    /\ UNCHANGED <<PS__TESTING, nLive, pidsVars, g, dataVars, infoVars, regionVars, raceVars>>

\* the finalizer PROTECT_PTR registered runs once the external pointer is
\* unprotected and collected: free(data)
AccFinalize ==
    /\ acc.pc = "done" /\ acc.registered /\ ~acc.finalized
    /\ acc' = [acc EXCEPT !.finalized = TRUE,
                          !.heap = free(acc.heap, acc.ptr)]
    /\ UNCHANGED <<PS__TESTING, nLive, pidsVars, g, dataVars, infoVars, regionVars, raceVars>>

NextAcc ==
    \/ AccCall \/ AccData \/ AccProtect
    \/ AccCmdline \/ AccCwd \/ AccEnviron \/ AccFinalize

----------------------------------------------------------------------------
(* The region-size probe of an environment request on its own: the start   *)
(* address src of the block, the region the OS reports for it, and the     *)
(* length the build computes for the read.  A 32-bit process has addresses *)
(* below DWORD32Mod, a 64-bit one below ULONG64Mod.                         *)

\* bytes left in the region from src on, offset of src in the region, and
\* base address of the region
Remains == {1, 2, DWORD32Mod - 1, DWORD32Mod, DWORD32Mod + 1}
Offsets == {0, 1, DWORD32Mod - 1, DWORD32Mod, DWORD32Mod + 1}
Bases == {0, DWORD32Mod - 2, DWORD32Mod, 3 * DWORD32Mod}

\* the modes of a build, and the size of the target's address space
ModesOf(wide) ==
    IF wide THEN {"Native", "TargetNarrowerThanCaller"}
    ELSE {"Native", "TargetWiderThanCaller"}
TargetSpace(wide, mode) ==
    IF (wide /\ mode = "Native") \/ mode = "TargetWiderThanCaller"
    THEN ULONG64Mod ELSE DWORD32Mod

ProbeInputs(wide) ==
    {[pc |-> "probe", mode |-> m, src |-> b + o,
      info |-> [BaseAddress |-> b, RegionSize |-> o + r],
      size |-> 0, lastRead |-> 0] :
        <<m, b, o, r>> \in
           {x \in ModesOf(wide) \X Bases \X Offsets \X Remains :
               x[2] + x[3] + x[4] <= TargetSpace(wide, x[1])}}

\* if (kind == KIND_ENVIRON) { ... size = ... }
ProbeSize(mode, src, info) ==
    IF mode = "TargetWiderThanCaller"
    THEN SizeT32(ps__get_process_region_size64(src, info))
    ELSE ps__get_process_region_size(src, info)

RegionProbe ==
    /\ rs.pc = "probe"
    /\ rs' = [rs EXCEPT !.pc = "read",
                        !.size = ProbeSize(rs.mode, rs.src, rs.info)]
    /\ UNCHANGED <<PS__TESTING, nLive, pidsVars, g, dataVars, infoVars,
                   accVars, raceVars>>

\* the remote read of size bytes from src
RegionRead ==
    /\ rs.pc = "read"
    /\ rs' = [rs EXCEPT !.pc = "done", !.lastRead = rs.src + rs.size - 1]
    /\ UNCHANGED <<PS__TESTING, nLive, pidsVars, g, dataVars, infoVars,
                   accVars, raceVars>>

NextRegion == RegionProbe \/ RegionRead

RegionIdle ==
    [pc |-> "idle", mode |-> "Native", src |-> NULL,
     info |-> NoInfo, size |-> 0, lastRead |-> 0]

----------------------------------------------------------------------------
(* Two concurrent calls.  Each thread runs ps__get_process_data (32-bit    *)
(* build) or ps__get_proc_info; a step is one read or one write of a       *)
(* static (a cached pointer or the size hint) together with the local work *)
(* that follows it up to the next such access.  What the OS answers to a   *)
(* thread is drawn when the thread starts and kept in its record; lookups  *)
(* holds the primitives the thread has called GetProcAddress for.          *)

Threads == {1, 2}

\* the statics in the order the code meets them
Prims ==
    <<"NtQueryInformationProcess", "NtWow64QueryInformationProcess64",
      "NtWow64ReadVirtualMemory64", "NtWow64QueryVirtualMemory64">>
\* the OS call made through each of them
CallOf == <<"query", "query", "peb", "probe">>

\* GetProcAddress(GetModuleHandleA("ntdll.dll"), Prims[j]): the address of
\* an export (j stands for it) does not change while the process lives
GetProcAddress(j) == IF world.exports[j] THEN j ELSE NULL

RaceSizes == {InitialHint \div 2, HintCeiling, HintCeiling + 1}

ThreadInputs ==
    {[fn |-> "ps__get_process_data", mode |-> x[1], failAt |-> x[2],
      need |-> 0, outcome |-> "none"] :
        x \in ({"Native"} \X {"none", "query"})
              \cup ({"TargetWiderThanCaller"}
                       \X {"none", "query", "peb", "probe"})}
    \cup
    {[fn |-> "ps__get_proc_info", mode |-> "none", failAt |-> "none",
      need |-> x[1], outcome |-> x[2]] :
        x \in RaceSizes \X {"syscall failed", "found", "NoSuchProcess"}}

\* what a call returns
Returned(ret, err) == [ret |-> ret, err |-> err]
NotReturned == Returned(2, "none")
CrashedCall == Returned(2, "call through NULL")
MissingCall(j) == Returned(-1, Prims[j] \o " missing")

ThreadEntry(inp) ==
    [in |-> inp,
     pc |-> IF inp.fn = "ps__get_process_data"
            THEN [at |-> "check", j |-> 1]
            ELSE [at |-> "hint", j |-> 0],
     bufferSize |-> 0, lookups |-> {}, res |-> NotReturned]

ThreadIdle ==
    [in |-> [fn |-> "none", mode |-> "none", failAt |-> "none", need |-> 0,
             outcome |-> "none"],
     pc |-> [at |-> "idle", j |-> 0], bufferSize |-> 0, lookups |-> {},
     res |-> NotReturned]

Done(t, res) == [t EXCEPT !.pc = [at |-> "done", j |-> 0], !.res = res]
Goto(t, at, j) == [t EXCEPT !.pc = [at |-> at, j |-> j]]

\* where the code goes once Prims[j] is known to be set, or was set without
\* a test (NtQueryInformationProcess)
AfterResolved(t, j) ==
    IF j = 1
    THEN IF t.in.mode = "Native" THEN Goto(t, "call", 1)
         ELSE Goto(t, "check", 2)
    ELSE Goto(t, "call", j)

\* a step of a thread leaves the other components and the exports alone
RaceOthers ==
    UNCHANGED <<PS__TESTING, nLive, pidsVars, g, callerWide, pd,
                ntdllRefs, pi, accVars, regionVars, world>>

\* if (X == NULL)
RaceCheck(i) ==
    /\ th[i].pc.at = "check"
    /\ th' = [th EXCEPT ![i] =
                 IF statics[Prims[th[i].pc.j]] = NULL
                 THEN Goto(th[i], "resolve", th[i].pc.j)
                 ELSE AfterResolved(th[i], th[i].pc.j)]
    /\ UNCHANGED <<statics, initialBufferSize>>
    /\ RaceOthers

\* X = GetProcAddress(...)
RaceResolve(i) ==
    /\ th[i].pc.at = "resolve"
    /\ statics' = [statics EXCEPT ![Prims[th[i].pc.j]] =
                       GetProcAddress(th[i].pc.j)]
    /\ \E t \in {[th[i] EXCEPT !.lookups = @ \cup {th[i].pc.j}]} :
         th' = [th EXCEPT ![i] =
                  IF t.pc.j = 1 THEN AfterResolved(t, 1)
                  ELSE Goto(t, "recheck", t.pc.j)]
    /\ UNCHANGED initialBufferSize
    /\ RaceOthers

\* if (X == NULL) { ps__set_error("X missing"); goto error; }
RaceRecheck(i) ==
    /\ th[i].pc.at = "recheck"
    /\ th' = [th EXCEPT ![i] =
                 IF statics[Prims[th[i].pc.j]] = NULL
                 THEN Done(th[i], MissingCall(th[i].pc.j))
                 ELSE AfterResolved(th[i], th[i].pc.j)]
    /\ UNCHANGED <<statics, initialBufferSize>>
    /\ RaceOthers

\* X(hProcess, ...): the pointer is read from the static and called
RaceCallThrough(i) ==
    /\ th[i].pc.at = "call"
    /\ \E j \in {th[i].pc.j} :
         th' = [th EXCEPT ![i] =
                  IF statics[Prims[j]] = NULL
                  THEN Done(th[i], CrashedCall)
                  ELSE IF th[i].in.failAt = CallOf[j]
                  THEN Done(th[i], Returned(-1, "WindowsError"))
                  ELSE IF j = 1 THEN Done(th[i], Returned(0, "none"))
                  ELSE IF j < 4 THEN Goto(th[i], "check", j + 1)
                  ELSE Goto(th[i], "read", 3)]
    /\ UNCHANGED <<statics, initialBufferSize>>
    /\ RaceOthers

\* the final NtWow64ReadVirtualMemory64(hProcess, src64, buffer, size, NULL)
RaceFinalRead(i) ==
    /\ th[i].pc.at = "read"
    /\ th' = [th EXCEPT ![i] =
                 IF statics[Prims[th[i].pc.j]] = NULL
                 THEN Done(th[i], CrashedCall)
                 ELSE Done(th[i], Returned(0, "none"))]
    /\ UNCHANGED <<statics, initialBufferSize>>
    /\ RaceOthers

\* bufferSize = initialBufferSize, then the query loop, which leaves the
\* size of the snapshot in bufferSize
RaceReadHint(i) ==
    /\ th[i].pc.at = "hint"
    /\ th' = [th EXCEPT ![i] =
                 IF th[i].in.outcome = "syscall failed"
                 THEN Done([th[i] EXCEPT !.bufferSize = initialBufferSize],
                           Returned(0, "NtQuerySystemInformation() syscall failed"))
                 ELSE Goto([th[i] EXCEPT !.bufferSize = th[i].in.need],
                           "sethint", 0)]
    /\ UNCHANGED <<statics, initialBufferSize>>
    /\ RaceOthers

\* if (bufferSize <= 0x20000) initialBufferSize = bufferSize; then the walk
RaceWriteHint(i) ==
    /\ th[i].pc.at = "sethint"
    /\ initialBufferSize' = HintAfter(initialBufferSize, th[i].bufferSize)
    /\ th' = [th EXCEPT ![i] =
                 IF th[i].in.outcome = "found"
                 THEN Done(th[i], Returned(1, "none"))
                 ELSE Done(th[i], Returned(0, "NoSuchProcess"))]
    /\ UNCHANGED statics
    /\ RaceOthers

NextRace ==
    \E i \in Threads :
        \/ RaceCheck(i) \/ RaceResolve(i) \/ RaceRecheck(i)
        \/ RaceCallThrough(i) \/ RaceFinalRead(i)
        \/ RaceReadHint(i) \/ RaceWriteHint(i)

\* ntdll.dll with every primitive exported
WorldIdle == [exports |-> [j \in 1..4 |-> TRUE]]

----------------------------------------------------------------------------
(* Specifications, one per component *)

NoPrev == [valid |-> FALSE, pids |-> <<>>]

Quiet ==
    /\ gp = GetPidsIdle
    /\ prevPids = NoPrev
    /\ g = GuardIdle
    /\ statics = StaticsInit
    /\ pd = DataIdle
    /\ initialBufferSize = InitialHint
    /\ ntdllRefs = 0
    /\ pi = InfoIdle
    /\ acc = AccIdle
    /\ rs = RegionIdle
    /\ th = [i \in Threads |-> ThreadIdle]
    /\ world = WorldIdle

InitPids ==
    /\ PS__TESTING = FALSE
    /\ nLive \in 0..MaxProcs
    /\ callerWide = TRUE
    /\ Quiet

NextPids == PidsCall \/ PidsPass

SpecPids == InitPids /\ [][NextPids]_vars

\* a call that has started runs on: nothing suspends the loop of ps__get_pids
SpecPidsFair == SpecPids /\ WF_vars(PidsPass)

InitGuard ==
    /\ PS__TESTING \in BOOLEAN
    /\ nLive \in 0..MaxGuardProcs
    /\ callerWide = TRUE
    /\ Quiet

NextGuard == GuardCall \/ GuardRun

SpecGuard == InitGuard /\ [][NextGuard]_vars

InitData ==
    /\ PS__TESTING = FALSE
    /\ nLive = 2
    /\ callerWide \in BOOLEAN
    /\ Quiet

SpecData == InitData /\ [][NextData]_vars

InitInfo ==
    /\ PS__TESTING = FALSE
    /\ nLive = 2
    /\ callerWide = TRUE
    /\ Quiet

SpecInfo == InitInfo /\ [][NextInfo]_vars

InitAcc ==
    /\ PS__TESTING = FALSE
    /\ nLive = 2
    /\ callerWide = TRUE
    /\ Quiet

SpecAcc == InitAcc /\ [][NextAcc]_vars

QuietButRegion ==
    /\ gp = GetPidsIdle
    /\ prevPids = NoPrev
    /\ g = GuardIdle
    /\ statics = StaticsInit
    /\ pd = DataIdle
    /\ initialBufferSize = InitialHint
    /\ ntdllRefs = 0
    /\ pi = InfoIdle
    /\ acc = AccIdle

InitRegion ==
    /\ PS__TESTING = FALSE
    /\ nLive = 2
    /\ callerWide \in BOOLEAN
    /\ QuietButRegion
    /\ rs \in ProbeInputs(callerWide)
    /\ th = [i \in Threads |-> ThreadIdle]
    /\ world = WorldIdle

SpecRegion == InitRegion /\ [][NextRegion]_vars

\* a fresh process (nothing resolved, the hint at its initial value) in
\* which two threads enter the subsystem
InitRace ==
    /\ PS__TESTING = FALSE
    /\ nLive = 2
    /\ callerWide = FALSE
    /\ QuietButRegion
    /\ rs = RegionIdle
    /\ world \in [exports : [1..4 -> BOOLEAN]]
    /\ th \in [Threads -> {ThreadEntry(inp) : inp \in ThreadInputs}]

SpecRace == InitRace /\ [][NextRace]_vars

----------------------------------------------------------------------------
(* Claims about the handle guard (checked under SpecGuard) *)

GuardDone == g.pc = "done"

\* C1: for every access mask, ps__handle_from_pid_waccess(0, access) returns
\* NULL with the AccessDenied error set, and OpenProcess is never called: no
\* open is attempted and no handle is created for PID 0.
C1_PidZeroAccessDenied ==
    (GuardDone /\ g.pid = 0) =>
        /\ g.r.handle = NULL
        /\ g.r.err = "AccessDenied"
        /\ g.r.openCalls = 0
        /\ g.r.opened = NULL
        /\ g.r.closes = 0

C1_Witness ==
    /\ GuardDone /\ g.pid = 0
    /\ g.access = "PROCESS_ALL_ACCESS"
    /\ g.os.open = "ok" /\ g.os.exitOk /\ g.os.exitCode = STILL_ACTIVE
    /\ g.r.err = "AccessDenied"

\* C2: whatever OpenProcess, GetExitCodeProcess, the exit code and the PID
\* list answer, a guard call that returns NULL has closed the handle
\* OpenProcess returned exactly once (and closed nothing when there was no
\* handle), and a guard call that returns a handle returns the opened handle
\* and has not closed it.
C2_GuardReleasesHandle ==
    GuardDone =>
        /\ (g.r.handle = NULL /\ g.r.opened # NULL) => g.r.closes = 1
        /\ g.r.opened = NULL => (g.r.closes = 0 /\ g.r.handle = NULL)
        /\ g.r.handle # NULL => (g.r.handle = g.r.opened /\ g.r.closes = 0)

C2_Witness ==
    /\ GuardDone /\ g.pid # 0
    /\ g.os.open = "ok" /\ g.os.exitOk /\ g.os.exitCode = 1
    /\ g.os.enum = "ok" /\ g.pid \notin {livePids(nLive)[i] : i \in 1..nLive}
    /\ g.r.handle = NULL /\ g.r.opened # NULL /\ g.r.closes = 1

\* the PID is one of the live processes of the system
IsLive(pid, n) == \E i \in 1..n : livePids(n)[i] = pid

\* C10: the guard's outcome follows the section 4.2 decision procedure for
\* every OS answer: open failing with ERROR_INVALID_PARAMETER gives 0
\* (NoSuchProcess); open failing otherwise gives -1; open succeeding with
\* exit code STILL_ACTIVE gives the handle (1); open succeeding with another
\* exit code gives the handle iff the PID is in the current PID list and
\* not-running (0) otherwise; a failed exit-code query gives -1.  Stated for
\* the production build (PS__TESTING off), where no cross-check interferes.
C10_GuardDecisionProcedure ==
    (GuardDone /\ g.pid # 0 /\ ~PS__TESTING) =>
        /\ g.os.open = "ERROR_INVALID_PARAMETER" =>
               (g.r.running = 0 /\ g.r.err = "NoSuchProcess")
        /\ g.os.open = "ERROR_ACCESS_DENIED" =>
               (g.r.running = -1 /\ g.r.err = "WindowsError")
        /\ (g.os.open = "ok" /\ g.os.exitOk /\ g.os.exitCode = STILL_ACTIVE) =>
               (g.r.running = 1 /\ g.r.handle # NULL)
        /\ (g.os.open = "ok" /\ g.os.exitOk /\ g.os.exitCode # STILL_ACTIVE) =>
               /\ g.r.handle # NULL <=> IsLive(g.pid, nLive)
               /\ g.r.handle # NULL => g.r.running = 1
               /\ g.r.handle = NULL => g.r.running = 0
        /\ (g.os.open = "ok" /\ ~g.os.exitOk) =>
               (g.r.running = -1 /\ g.r.err = "WindowsError")

----------------------------------------------------------------------------
(* Claims about the PID enumeration (checked under SpecPids) *)

PidsReturned == gp.status = "done" /\ gp.ret # NULL

\* C7: against an OS that fills min(n, capacity) identifiers of the n live
\* processes, a ps__get_pids call that returns an array returns it with a
\* count strictly below the capacity of that array, the array holds exactly
\* the n live PIDs and *numberOfReturnedPIDs = n; so the result equals the
\* one the previous call on the same process set returned.
C7_GetPidsComplete ==
    PidsReturned =>
        /\ gp.numberOfReturnedPIDs < gp.procArraySz
        /\ gp.heap[gp.ret] = "live"
        /\ gp.numberOfReturnedPIDs = nLive
        /\ SubSeq(gp.data, 1, gp.numberOfReturnedPIDs) = livePids(nLive)
        /\ prevPids.valid =>
               prevPids.pids = SubSeq(gp.data, 1, gp.numberOfReturnedPIDs)

C7_Witness ==
    /\ PidsReturned
    /\ nLive = PidChunk
    /\ gp.queries = 2
    /\ prevPids.valid
    /\ Len(prevPids.pids) = PidChunk

----------------------------------------------------------------------------
(* Claims about ps__get_process_data (checked under SpecData) *)

DataDone == pd.pc = "done"

\* C3: for every field kind, every bitness mode and every step at which an
\* OS call fails, the process handle obtained from ps__handle_from_pid has
\* been closed exactly once when ps__get_process_data returns, on the
\* success path and on each error path; a call the guard refused closes
\* nothing itself.
C3_HandleClosedOnce ==
    DataDone =>
        /\ pd.hProcess # NULL => (pd.closes = 1 /\ pd.guardCloses = 0)
        /\ pd.hProcess = NULL => pd.closes = 0
        /\ pd.opened # NULL => pd.guardCloses + pd.closes = 1

C3_Witness ==
    /\ DataDone /\ pd.hProcess # NULL
    /\ pd.kind = "KIND_ENVIRON" /\ pd.mode = "TargetWiderThanCaller"
    /\ pd.failedAt = "read" /\ pd.ret = -1
    /\ pd.closes = 1

\* C4: when a step of ps__get_process_data fails (guard, mode query,
\* primitive resolution, root-structure read, parameters read, region-size
\* probe, allocation, final read) the function returns -1 with *pdata and
\* *psize as the caller left them and the local buffer, when one was
\* allocated, freed once; a buffer reaches the caller only when no step
\* failed, and it is then the live buffer.
C4_FailureLeavesNothing ==
    DataDone =>
        /\ pd.failedAt # "none" =>
               /\ pd.ret = -1
               /\ pd.pdata = NULL /\ pd.psize = -1
               /\ pd.buffer # NULL => pd.heap[pd.buffer] = "freed"
        /\ pd.ret = -1 => pd.failedAt # "none"
        /\ pd.pdata # NULL =>
               /\ pd.ret = 0 /\ pd.failedAt = "none"
               /\ pd.pdata = pd.buffer /\ pd.heap[pd.pdata] = "live"
        /\ \A b \in 1..Len(pd.heap) : pd.heap[b] # "double"

C4_Witness ==
    /\ DataDone /\ pd.failedAt = "read" /\ pd.ret = -1
    /\ pd.buffer # NULL /\ pd.heap[pd.buffer] = "freed"
    /\ pd.pdata = NULL /\ pd.psize = -1

\* the resolved length of the request: the descriptor's Length for the two
\* strings, the size left in the region after the start address for the
\* environment
ResolvedLength ==
    IF pd.kind = "KIND_CMDLINE" THEN pd.params.CommandLine.Length
    ELSE IF pd.kind = "KIND_CWD" THEN pd.params.CurrentDirectoryPath.Length
    ELSE pd.info.RegionSize - (pd.params.env - pd.info.BaseAddress)

\* C5: on success with resolved length L the returned buffer is exactly
\* L + 2 bytes, one remote read copied exactly L bytes into its first L
\* bytes, its last 2 bytes are zero and *psize reports L.
C5_BufferIsLengthPlusTwo ==
    (DataDone /\ pd.ret = 0) =>
        /\ Len(pd.mem) = ResolvedLength + 2
        /\ pd.reads = 1 /\ Len(pd.copied) = ResolvedLength
        /\ \A i \in 1..ResolvedLength : pd.mem[i] = pd.copied[i]
        /\ pd.mem[ResolvedLength + 1] = 0 /\ pd.mem[ResolvedLength + 2] = 0
        /\ pd.psize = ResolvedLength
        /\ pd.pdata = pd.buffer

C5_Witness ==
    /\ DataDone /\ pd.ret = 0 /\ pd.kind = "KIND_CWD"
    /\ pd.psize = 2 /\ pd.params.CommandLine.Length = 0
    /\ \A i \in 1..pd.psize : pd.mem[i] # 0
    /\ Len(pd.mem) = 4

\* C6: the mode the call works in matches the section 4.3 table: a wide
\* caller is in TargetNarrowerThanCaller iff the target has a 32-bit PEB
\* and in Native otherwise; a narrow caller is in TargetWiderThanCaller iff
\* it runs under WoW64 and the target does not, and in Native for the other
\* three combinations; only the wider-target mode works on 64-bit addresses.
C6_ModeMatchesTable ==
    pd.mode # "none" =>
        /\ callerWide =>
               pd.mode = (IF pd.ppeb32 # NULL THEN "TargetNarrowerThanCaller"
                          ELSE "Native")
        /\ (~callerWide /\ pd.weAreWow64 /\ ~pd.theyAreWow64) =>
               pd.mode = "TargetWiderThanCaller"
        /\ (~callerWide /\ ~(pd.weAreWow64 /\ ~pd.theyAreWow64)) =>
               pd.mode = "Native"
        /\ pd.mode = "TargetWiderThanCaller" => pd.src = NULL
        /\ pd.mode # "TargetWiderThanCaller" => pd.src64 = NULL

C6_Witness ==
    /\ DataDone /\ pd.ret = 0
    /\ ~callerWide /\ pd.weAreWow64 /\ ~pd.theyAreWow64
    /\ pd.mode = "TargetWiderThanCaller" /\ pd.src64 # NULL

----------------------------------------------------------------------------
(* Claims about ps__get_proc_info (checked under SpecInfo) *)

InfoDone == pi.pc = "done"

\* the call got a snapshot and walked it
Walked == InfoDone /\ pi.status = "STATUS_SUCCESS"

\* address of the snapshot buffer, offsets of its records, and the offsets
\* of the records that carry the target PID
SnapBase == pi.buffer * BlockSpan
SnapOffsets == DOMAIN pi.snap
Matching == {o \in SnapOffsets : pi.snap[o].UniqueProcessId = pi.pid}
Lowest(S) == CHOOSE o \in S : \A q \in S : o <= q

\* C8: for a chain of N >= 1 records linked by NextEntryOffset and a target
\* PID at any position, ps__get_proc_info returns 1 with *retProcess at the
\* first record that carries the target PID, having visited the records up
\* to it in chain order; when no record carries it the call returns 0 with
\* NoSuchProcess after visiting every record of the chain once.
C8_ScanFindsFirstMatch ==
    Walked =>
        /\ Matching # {} =>
               /\ pi.ret = 1
               /\ pi.retProcess = SnapBase + Lowest(Matching)
               /\ {pi.visited[i] : i \in 1..Len(pi.visited)} =
                      {SnapBase + o : o \in {q \in SnapOffsets : q <= Lowest(Matching)}}
        /\ Matching = {} =>
               /\ pi.ret = 0 /\ pi.err = "NoSuchProcess"
               /\ {pi.visited[i] : i \in 1..Len(pi.visited)} =
                      {SnapBase + o : o \in SnapOffsets}
        /\ Len(pi.visited) = Cardinality({pi.visited[i] : i \in 1..Len(pi.visited)})
        /\ \A i \in 1..Len(pi.visited) - 1 : pi.visited[i] < pi.visited[i + 1]

C8_Witness ==
    /\ Walked /\ pi.ret = 1
    /\ Cardinality(SnapOffsets) = 3
    /\ Cardinality(Matching) = 1
    /\ pi.retProcess = SnapBase + 4
    /\ Len(pi.visited) = 3

LiveBlocks(heap) == {b \in 1..Len(heap) : heap[b] = "live"}

\* C9: the snapshot buffer has one owner at every point: at most one block
\* is live at a time and none is freed twice; when the call returns 1 the
\* live block is the one handed over through *retBuffer; when it returns 0
\* every block it allocated, also each one replaced in a resize, has been
\* freed once and *retProcess / *retBuffer are as the caller left them.
C9_SnapshotBufferOwner ==
    /\ Cardinality(LiveBlocks(pi.heap)) <= 1
    /\ \A b \in 1..Len(pi.heap) : pi.heap[b] # "double"
    /\ (InfoDone /\ pi.ret = 1) =>
           /\ pi.retBuffer = pi.buffer /\ pi.retBuffer # NULL
           /\ LiveBlocks(pi.heap) = {pi.retBuffer}
    /\ (InfoDone /\ pi.ret = 0) =>
           /\ LiveBlocks(pi.heap) = {}
           /\ pi.retProcess = NULL /\ pi.retBuffer = NULL

C9_Witness ==
    /\ InfoDone /\ pi.ret = 0 /\ pi.err = "NoSuchProcess"
    /\ Len(pi.heap) >= 2
    /\ \A b \in 1..Len(pi.heap) : pi.heap[b] = "freed"

----------------------------------------------------------------------------
(* Claims about the testing-mode cross-checks (checked under SpecGuard) *)

\* C11: with PS__TESTING on and a process set that does not change during
\* the call, for every PID that ps__get_pids enumerates the guard never
\* returns -2 (AssertionFailure), whether OpenProcess succeeds or is denied
\* access and whether GetExitCodeProcess succeeds or fails.
C11_NoAssertionForLivePid ==
    (/\ GuardDone /\ PS__TESTING
     /\ g.pid # 0 /\ IsLive(g.pid, nLive)
     /\ g.os.enum = "ok"
     /\ g.os.open \in {"ok", "ERROR_ACCESS_DENIED"}) =>
        g.r.running # -2

\* ps__is_phandle_running with the two cross-checks removed: what a build
\* without ps__assert_pid_exists / ps__assert_pid_not_exists would do
GuardWithoutCrossChecks(hProcess, pid, os) ==
    IF hProcess = NULL
    THEN IF os.open = "ERROR_INVALID_PARAMETER"
         THEN [ret |-> 0, closes |-> 0, branch |-> "open: invalid parameter",
               enums |-> 0]
         ELSE [ret |-> -1, closes |-> 0, branch |-> "open: other error",
               enums |-> 0]
    ELSE IF os.exitOk
    THEN IF os.exitCode = STILL_ACTIVE
         THEN [ret |-> 1, closes |-> 0, branch |-> "still active", enums |-> 0]
         ELSE IF IsLive(pid, os.n) /\ os.enum = "ok"
              THEN [ret |-> 1, closes |-> 0, branch |-> "exit code",
                    enums |-> 1]
              ELSE [ret |-> 0, closes |-> 1, branch |-> "exit code",
                    enums |-> 1]
    ELSE [ret |-> -1, closes |-> 1, branch |-> "exit code query failed",
          enums |-> 0]

\* C12: with PS__TESTING off both assert helpers return 1 and enumerate no
\* PIDs, so the guard never yields -2 and, for every OS answer, it takes the
\* same branch, makes the same enumerations and returns the same outcome and
\* handle state (handle returned, handle closed) as the guard with the
\* cross-checks removed.
C12_TestingOffNoCrossChecks ==
    (GuardDone /\ ~PS__TESTING /\ g.pid # 0) =>
        \E h \in {OpenProcess(g.os)} :
        \E run \in {ps__is_phandle_running(h, g.pid, g.os)} :
        \E ref \in {GuardWithoutCrossChecks(h, g.pid, g.os)} :
            /\ ps__assert_pid_exists(g.pid, nLive, g.os.enum, PS__TESTING) = 1
            /\ ps__assert_pid_not_exists(g.pid, nLive, g.os.enum,
                                         PS__TESTING) = 1
            /\ AssertEnumerations(PS__TESTING) = 0
            /\ g.r.running # -2
            /\ run.branch = ref.branch /\ run.enums = ref.enums
            /\ run.ret = ref.ret /\ run.closes = ref.closes
            /\ g.r.running = ref.ret /\ g.r.closes = ref.closes
            /\ g.r.handle = (IF ref.ret = 1 THEN h ELSE NULL)

C12_Witness ==
    /\ GuardDone /\ ~PS__TESTING /\ g.pid # 0
    /\ ~IsLive(g.pid, nLive)
    /\ g.os.open = "ok" /\ g.os.exitOk /\ g.os.exitCode = STILL_ACTIVE
    /\ g.os.enum = "ok"
    /\ g.r.handle # NULL /\ g.r.running = 1

----------------------------------------------------------------------------
(* Claims about the accessors (checked under SpecAcc) *)

AccReturned(fn) == acc.pc = "done" /\ acc.fn = fn /\ acc.ret = 0

\* the string a buffer holds: its characters before the first zero
Str(data) == SubSeq(data, 1, wcslen(data))

\* C13: the trailing-separator trim of ps__get_cwd is idempotent: for every
\* working-directory string x the target can hold, strings ending in more
\* than one separator and the empty string included, trimming the trimmed
\* buffer again leaves its string unchanged, trim(trim(x)) = trim(x).
C13_TrimIdempotent ==
    AccReturned("KIND_CWD") =>
        \A before \in WChars :
            Str(Trim(acc.data, before).data) = Str(acc.data)

\* the accessor has returned and every finalizer it registered has run
AccSettled == acc.pc = "done" /\ (acc.registered => acc.finalized)

\* C14: in ps__get_cmdline, ps__get_cwd and ps__get_environ the buffer a
\* successful ps__get_process_data returned is released exactly once on
\* every exit path, the path where CommandLineToArgvW fails after
\* PROTECT_PTR included: it is never released twice, and once the accessor
\* has returned it is released or its release is registered, and released
\* when all is settled.
C14_AccessorReleasesOnce ==
    acc.ptr # NULL =>
        /\ acc.heap[acc.ptr] # "double"
        /\ acc.pc = "done" =>
               (acc.registered \/ acc.heap[acc.ptr] = "freed")
        /\ AccSettled => acc.heap[acc.ptr] = "freed"

----------------------------------------------------------------------------
(* Claims about the cached primitives (checked under SpecData) *)

Wow64Primitives ==
    {"NtWow64QueryInformationProcess64", "NtWow64ReadVirtualMemory64",
     "NtWow64QueryVirtualMemory64"}

MissingErrors ==
    {"NtWow64QueryInformationProcess64 missing",
     "NtWow64ReadVirtualMemory64 missing",
     "NtWow64QueryVirtualMemory64 missing"}

\* GetProcAddress is asked for primitive f in this step
Resolving(f) == f \in pd'.lookups /\ f \notin pd.lookups

\* C15: in every step of every sequence of calls, each cross-bitness
\* primitive is resolved only by a call in TargetWiderThanCaller mode and
\* only while its cached pointer is NULL; a resolved pointer never changes
\* and is never resolved again; a failed resolution leaves the pointer NULL
\* (not cached) and makes that call return -1 with the "<primitive> missing"
\* error, its handle closed once and no buffer returned or left allocated;
\* a call in another mode never resolves or changes a cross-bitness
\* primitive and never fails with a missing-capability error.
C15_LazyResolution ==
    [][/\ \A f \in Wow64Primitives :
            /\ statics[f] # NULL =>
                   (statics'[f] = statics[f] /\ ~Resolving(f))
            /\ statics'[f] # statics[f] => Resolving(f)
            /\ Resolving(f) =>
                   (pd.mode = "TargetWiderThanCaller" /\ statics[f] = NULL)
            /\ (Resolving(f) /\ statics'[f] = NULL) =>
                   /\ pd'.pc = "done" /\ pd'.ret = -1
                   /\ pd'.err = f \o " missing"
                   /\ pd'.closes = 1
                   /\ pd'.pdata = NULL
                   /\ \A b \in 1..Len(pd'.heap) : pd'.heap[b] # "live"
       /\ (pd'.pc = "done" /\ pd'.mode # "TargetWiderThanCaller") =>
              pd'.err \notin MissingErrors]_vars

C15_Witness ==
    /\ pd.pc = "done" /\ pd.ret = 0
    /\ pd.mode = "TargetWiderThanCaller" /\ pd.kind = "KIND_ENVIRON"
    /\ pd.lookups = {}
    /\ \A f \in Wow64Primitives : statics[f] # NULL

----------------------------------------------------------------------------
(* Claims about the grow-and-retry loop (checked under SpecPidsFair) *)

LiveArrays == {b \in 1..Len(gp.heap) : gp.heap[b] = "live"}

GetPidsLoopBound ==
    gp.status \in {"loop", "done"} =>
        /\ gp.queries <= nLive \div PidChunk + 1
        /\ gp.status = "loop" => gp.procArraySz = PidChunk * gp.queries
        /\ \A b \in 1..Len(gp.heap) : gp.heap[b] # "double"
        /\ Cardinality(LiveArrays) <= 1
        /\ (gp.status = "done" /\ gp.ret = NULL) =>
               /\ LiveArrays = {}
               /\ gp.err \in {"NoMemory", "WindowsError"}
        /\ (gp.status = "done" /\ gp.ret # NULL) =>
               /\ LiveArrays = {gp.ret}
               /\ gp.queries = nLive \div PidChunk + 1
               /\ gp.procArraySz = PidChunk * gp.queries

GetPidsGrowth ==
    gp.status = "loop" => gp'.procArraySz = gp.procArraySz + PidChunk

\* C16: against an OS with n live processes that fills min(n, capacity)
\* identifiers, the loop of ps__get_pids terminates: every pass raises the
\* capacity by exactly PidChunk slots starting from PidChunk, at most one
\* array is allocated at any time (the previous one is freed before the next
\* is allocated, none is freed twice), a call that returns an array has made
\* exactly n \div PidChunk + 1 queries and no call makes more, a call that
\* fails reports NoMemory or WindowsError with no array left allocated, and
\* every call that has started returns.
C16_GetPidsTerminates ==
    /\ []GetPidsLoopBound
    /\ [][GetPidsGrowth]_vars
    /\ (gp.status = "loop" ~> gp.status = "done")

C16_Witness ==
    /\ gp.status = "done" /\ gp.ret # NULL
    /\ nLive = 2 * PidChunk
    /\ gp.queries = 3
    /\ gp.procArraySz = 3 * PidChunk

----------------------------------------------------------------------------
(* Claims about the region-size probe (checked under SpecRegion) *)

\* region_size - (start - region_base), in unbounded arithmetic
ExactRemainder == rs.info.RegionSize - (rs.src - rs.info.BaseAddress)
RegionEnd == rs.info.BaseAddress + rs.info.RegionSize

\* C17: for an environment request in every bitness mode the length used
\* for the read equals region_size - (start - region_base) exactly, also
\* where the 32-bit build casts the 64-bit addresses and the 64-bit result
\* of a 64-bit target to 32 bits, and so the read ends inside the region.
C17_RegionLengthExact ==
    rs.pc = "done" =>
        /\ rs.size = ExactRemainder
        /\ rs.lastRead < RegionEnd

----------------------------------------------------------------------------
(* Claims about the size hint (checked under SpecInfo) *)

HintBounded == initialBufferSize <= HintCeiling

\* the hint changes only in a step whose query succeeded with a size at or
\* below the ceiling, and takes that size
HintUpdate ==
    initialBufferSize' # initialBufferSize =>
        /\ pi'.status = "STATUS_SUCCESS"
        /\ pi'.bufferSize <= HintCeiling
        /\ initialBufferSize' = pi'.bufferSize

\* found or NoSuchProcess is decided by the snapshot and the PID alone
OutcomeBySnapshot ==
    Walked =>
        /\ pi.ret = 1 <=> Matching # {}
        /\ pi.ret = 0 <=> Matching = {}
        /\ pi.ret = 0 => pi.err = "NoSuchProcess"

\* C18 as stated: after any sequence of ps__get_proc_info calls the hint is
\* at most HintCeiling; it is updated only by a call whose query succeeded
\* with a size at or below the ceiling; every call that fails (returns 0)
\* leaves it as the call found it; and found / NoSuchProcess is decided by
\* the snapshot and the PID, whatever the hint.
C18_HintUnchangedByFailedCalls ==
    /\ []HintBounded
    /\ [][HintUpdate]_vars
    /\ []((InfoDone /\ pi.ret = 0) => initialBufferSize = pi.firstSize)
    /\ []OutcomeBySnapshot

\* C18 amended: as above, but the calls that leave the hint as they found
\* it are those whose query did not succeed or reported a size above the
\* ceiling; a call whose query succeeded with a size at or below the ceiling
\* sets the hint to that size, also when it then returns 0 with
\* NoSuchProcess.
C18_HintFollowsSuccessfulQuery ==
    /\ []HintBounded
    /\ [][HintUpdate]_vars
    /\ []((InfoDone /\ pi.status # "STATUS_SUCCESS") =>
              initialBufferSize = pi.firstSize)
    /\ [](Walked =>
              initialBufferSize = IF pi.bufferSize <= HintCeiling
                                  THEN pi.bufferSize ELSE pi.firstSize)
    /\ []OutcomeBySnapshot

C18_Witness ==
    /\ Walked /\ pi.ret = 0 /\ pi.err = "NoSuchProcess"
    /\ pi.firstSize = InitialHint
    /\ pi.bufferSize = HintCeiling
    /\ initialBufferSize = HintCeiling

----------------------------------------------------------------------------
(* Claims about concurrent calls (checked under SpecRace) *)

\* One whole call run alone on the shared state sh = [statics, hint], as the
\* sequential code runs it: what it returns and the shared state it leaves.
RECURSIVE SerialWow64(_, _, _)
SerialWow64(inp, sh, j) ==
    LET fn == Lazy(sh.statics[Prims[j]], GetProcAddress(j))
        s2 == [sh EXCEPT !.statics[Prims[j]] = fn]
    IN  IF fn = NULL THEN [res |-> MissingCall(j), sh |-> s2]
        ELSE IF inp.failAt = CallOf[j]
        THEN [res |-> Returned(-1, "WindowsError"), sh |-> s2]
        ELSE IF j < 4 THEN SerialWow64(inp, s2, j + 1)
        ELSE [res |-> Returned(0, "none"), sh |-> s2]

SerialCall(inp, sh) ==
    IF inp.fn = "ps__get_process_data"
    THEN LET fn == Lazy(sh.statics[Prims[1]], GetProcAddress(1))
             s2 == [sh EXCEPT !.statics[Prims[1]] = fn]
         IN  IF inp.mode = "Native"
             THEN [res |-> IF fn = NULL THEN CrashedCall
                           ELSE IF inp.failAt = "query"
                           THEN Returned(-1, "WindowsError")
                           ELSE Returned(0, "none"),
                   sh |-> s2]
             ELSE SerialWow64(inp, s2, 2)
    ELSE IF inp.outcome = "syscall failed"
    THEN [res |-> Returned(0, "NtQuerySystemInformation() syscall failed"),
          sh |-> sh]
    ELSE [res |-> IF inp.outcome = "found" THEN Returned(1, "none")
                  ELSE Returned(0, "NoSuchProcess"),
          sh |-> [sh EXCEPT !.hint = HintAfter(sh.hint, inp.need)]]

\* the results of the two calls and the shared state after call a, then b
SerialOrder(a, b) ==
    LET fresh  == [statics |-> StaticsInit, hint |-> InitialHint]
        first  == SerialCall(th[a].in, fresh)
        second == SerialCall(th[b].in, first.sh)
    IN  [res |-> [i \in Threads |-> IF i = a THEN first.res ELSE second.res],
         sh |-> second.sh]

RaceSettled == \A i \in Threads : th[i].pc.at = "done"

\* C19: when two calls are interleaved read by read and write by write of
\* the cached pointers and of the size hint, at every point each cached
\* pointer is NULL or the address GetProcAddress gives for it and the hint
\* is at most HintCeiling, and once both calls have ended, their results
\* and the shared state are those of the two calls run one after the other
\* in one of the two orders.
C19_InterleavingIsSerial ==
    /\ \A j \in 1..4 :
           statics[Prims[j]] # NULL =>
               (world.exports[j] /\ statics[Prims[j]] = GetProcAddress(j))
    /\ initialBufferSize <= HintCeiling
    /\ RaceSettled =>
           \E o \in {SerialOrder(1, 2), SerialOrder(2, 1)} :
               /\ \A i \in Threads : th[i].res = o.res[i]
               /\ statics = o.sh.statics
               /\ initialBufferSize = o.sh.hint

\* both calls found the same pointers NULL and resolved them, each writing
\* the static the other had tested
C19_Witness ==
    /\ RaceSettled
    /\ \A i \in Threads : th[i].res = Returned(0, "none")
    /\ \A i \in Threads : th[i].in.mode = "TargetWiderThanCaller"
    /\ \A i \in Threads : th[i].lookups = {1, 2, 3, 4}
    /\ \A j \in 1..4 : statics[Prims[j]] = j

----------------------------------------------------------------------------
(* Claim about the environment scan (checked under SpecAcc) *)

\* C20: the double-terminator scan of ps__get_environ never examines a
\* character outside the buffer of AllocSize(size) bytes it was given,
\* whatever the buffer holds (also when the first size bytes hold no two
\* consecutive zero characters), and its bound end = data + size lies
\* within the allocation.
C20_EnvScanInBounds ==
    AccReturned("KIND_ENVIRON") =>
        /\ acc.examined < Cells(acc.size)
        /\ ~acc.oobRead
        /\ EnvScanEnd(acc.size) <= Cells(acc.size)

----------------------------------------------------------------------------
(* Claim about calls through unresolved pointers (checked under SpecData; *)
(* its ps__get_proc_info part under SpecInfo)                             *)

\* the call is past the step that calls primitive f in the mode that uses it
CalledWow64(f) ==
    /\ pd.mode = "TargetWiderThanCaller"
    /\ CASE f = "NtWow64QueryInformationProcess64" ->
                \/ pd.pc \in {"peb", "params", "probe", "alloc", "read"}
                \/ pd.pc = "done" /\ pd.failedAt \notin {"resolve64"}
         [] f = "NtWow64ReadVirtualMemory64" ->
                \/ pd.pc \in {"params", "probe", "alloc", "read"}
                \/ pd.pc = "done" /\ pd.failedAt \notin {"resolve64", "query"}
         [] OTHER ->
                /\ pd.kind = "KIND_ENVIRON"
                /\ \/ pd.pc \in {"alloc", "read"}
                   \/ pd.pc = "done"
                      /\ pd.failedAt \notin {"resolve64", "query", "peb", "params"}

\* the three cross-bitness primitives are called through a resolved pointer
\* and a failed resolution of one ends the call with the missing error
Wow64CalledResolved ==
    /\ \A f \in Wow64Primitives : CalledWow64(f) => statics[f] # NULL
    /\ (pd.pc = "done" /\ pd.failedAt = "resolve64") =>
           (pd.ret = -1 /\ pd.err \in MissingErrors)

\* ps__get_process_data never calls through a NULL NtQueryInformationProcess:
\* a resolution that left the pointer NULL does not reach the steps that call it
DataCalledResolved ==
    /\ pd.pc # "crashed"
    /\ pd.pc \in {"mode", "query"} => statics.NtQueryInformationProcess # NULL

\* ps__get_proc_info never calls through a NULL NtQuerySystemInformation
InfoCalledResolved ==
    /\ pi.pc # "crashed"
    /\ pi.pc = "query" => pi.NtQuerySystemInformation # NULL

\* C21: no dynamically resolved primitive is invoked while its pointer is
\* NULL: NtQueryInformationProcess, the three NtWow64* primitives and
\* NtQuerySystemInformation are called only through a pointer that a
\* resolution set to a non-NULL address, and a resolution that returned NULL
\* ends the call with an error return instead of reaching the call.
C21_NoNullPrimitiveCall ==
    /\ DataCalledResolved
    /\ InfoCalledResolved
    /\ Wow64CalledResolved

----------------------------------------------------------------------------
(* Claim about the ntdll module reference (checked under SpecInfo) *)

\* a returned call that failed has released the reference it acquired
FailedCallReleases ==
    (pi.pc = "done" /\ pi.ret = 0) => pi.frees = pi.loads

\* C22: every ps__get_proc_info call that returns has released the ntdll
\* module reference it acquired with LoadLibrary exactly once, on the
\* return-1 path as on every failure path, so no module reference is
\* outstanding after any sequence of returned calls.
C22_ModuleReferenceReleased ==
    pi.pc = "done" =>
        /\ pi.frees = pi.loads
        /\ ntdllRefs = 0

----------------------------------------------------------------------------
(* Claim about the ambiguous branch of the guard (checked under SpecGuard) *)

\* the guard took the branch "open succeeded, exit code is not STILL_ACTIVE"
AmbiguousBranch ==
    /\ GuardDone /\ g.pid # 0
    /\ g.os.open = "ok" /\ g.os.exitOk /\ g.os.exitCode # STILL_ACTIVE

\* in the ambiguous branch with a successful enumeration the guard decides
\* by membership: the handle for a listed PID, NoSuchProcess otherwise
AmbiguousDecidedByList ==
    (AmbiguousBranch /\ g.os.enum = "ok") =>
        /\ ps__pid_in_pids(g.pid, g.os.n, g.os.enum) = 1 =>
               (g.r.running = 1 /\ g.r.handle # NULL)
        /\ ps__pid_in_pids(g.pid, g.os.n, g.os.enum) = 0 =>
               (g.r.running = 0 /\ g.r.err = "NoSuchProcess")

\* C23: in the ambiguous branch of the guard the not-running outcome
\* (result 0, NoSuchProcess) is reported only when the PID enumeration
\* succeeded and the PID is absent from the list; when the enumeration
\* fails (ps__pid_in_pids returns -1) the guard reports a failure (an error
\* other than NoSuchProcess) and not a not-running result.
C23_EnumerationFailureReported ==
    AmbiguousBranch =>
        /\ (g.r.running = 0 \/ g.r.err = "NoSuchProcess") =>
               ps__pid_in_pids(g.pid, g.os.n, g.os.enum) = 0
        /\ ps__pid_in_pids(g.pid, g.os.n, g.os.enum) = -1 =>
               (g.r.running \notin {0, 1} /\ g.r.err # "NoSuchProcess")

====
